---------------------------- MODULE Spec2Model ----------------------------
(***************************************************************************)
(* A model of the calculator automation core of mcp_calculator_server.py:  *)
(* the instruction parser (CalculatorInstructionParser), the element        *)
(* resolver (_find_node_by_name), the window tracker                        *)
(* (_find_calculator_window, _update_window_position) and the executor      *)
(* (open_calculator, click_button, handle_request).                         *)
(*                                                                         *)
(* Text is modelled by TLC strings, on which Len, \o and SubSeq act as on   *)
(* sequences of characters, so that the substring tests, splits and         *)
(* regular expressions of the source are computed character by character.  *)
(***************************************************************************)
EXTENDS Integers, Sequences, FiniteSets, TLC

VARIABLES
    instruction,    \* parser: the text handed to parse
    normalized,     \* parser: the text after lower(), strip() and the number words
    buttons,        \* parser: the sequence parse returned
    nodes,          \* fdom_data: the nodes of the root state, in the order of the map
    name,           \* resolver: the button name handed to _find_node_by_name
    found,          \* resolver: the node id it returned, None when it found none
    windows,        \* desktop: for each window id, the window the GUI backend lists
    located,        \* tracker: the window id _find_calculator_window returned
    searches,       \* tracker: the calls of _find_calculator_window the running
                    \* _update_window_position has made
    window_id,      \* controller: self.window_id, NoId for None
    window_pos,     \* controller: self.window_pos, NoPos for None
    call,           \* executor: what the call that has just returned did
    token,          \* executor: how many buttons of the sequence execute_calculation has handled
    results,        \* executor: the results execute_calculation has collected
    pc              \* which step of the checked specification comes next

parserVars == <<instruction, normalized, buttons>>
resolverVars == <<name, found>>
controllerVars == <<window_id, window_pos>>
trackerVars == <<located, searches>>
executorVars == <<call, token, results>>
vars == <<instruction, normalized, buttons, nodes, name, found, windows, located,
          searches, window_id, window_pos, call, token, results, pc>>

(***************************************************************************)
(* Python's None, where the value it stands beside is a string.            *)
(***************************************************************************)
None == "None"

(***************************************************************************)
(* String primitives of Python used by the source.                         *)
(***************************************************************************)
Char(s, i) == SubSeq(s, i, i)

\* p in s
Contains(s, p) ==
    \E i \in 1..(Len(s) - Len(p) + 1) : SubSeq(s, i, i + Len(p) - 1) = p

\* s.startswith(p)
StartsWith(s, p) == Len(p) <= Len(s) /\ SubSeq(s, 1, Len(p)) = p

UpperChars == <<"A","B","C","D","E","F","G","H","I","J","K","L","M",
                "N","O","P","Q","R","S","T","U","V","W","X","Y","Z">>
LowerChars == <<"a","b","c","d","e","f","g","h","i","j","k","l","m",
                "n","o","p","q","r","s","t","u","v","w","x","y","z">>

UpperSet == {UpperChars[k] : k \in 1..26}
LowerSet == {LowerChars[k] : k \in 1..26}

LowerChar(c) ==
    IF c \in UpperSet
    THEN LowerChars[CHOOSE k \in 1..26 : UpperChars[k] = c]
    ELSE c

\* the lower-casing of the characters i..j of s, by halves
RECURSIVE LowerRange(_, _, _)
LowerRange(s, i, j) ==
    IF i > j THEN ""
    ELSE IF i = j THEN LowerChar(Char(s, i))
    ELSE LET m == (i + j) \div 2 IN
         LowerRange(s, i, m) \o LowerRange(s, m + 1, j)

\* s.lower(); a text without upper-case letters is its own lower-casing
Lower(s) ==
    IF \A i \in 1..Len(s) : Char(s, i) \notin UpperSet THEN s
    ELSE LowerRange(s, 1, Len(s))

Whitespace == {" ", "\t", "\n"}

Min(S) == CHOOSE x \in S : \A y \in S : x <= y
Max(S) == CHOOSE x \in S : \A y \in S : x >= y

\* s.strip(): from the first to the last character that is not whitespace
Strip(s) ==
    LET solid == {i \in 1..Len(s) : Char(s, i) \notin Whitespace} IN
    IF solid = {} THEN "" ELSE SubSeq(s, Min(solid), Max(solid))

DigitChars == {"0","1","2","3","4","5","6","7","8","9"}

\* the characters \w matches, among those of the texts considered
IsWordChar(c) == c \in DigitChars \cup UpperSet \cup LowerSet \cup {"_"}

\* s.isdigit()
IsDigit(s) == Len(s) > 0 /\ \A i \in 1..Len(s) : Char(s, i) \in DigitChars

\* the least index >= from at which p occurs in s, 0 when there is none
IndexFrom(s, p, from) ==
    LET at == {i \in from..(Len(s) - Len(p) + 1) : SubSeq(s, i, i + Len(p) - 1) = p}
    IN IF at = {} THEN 0 ELSE Min(at)

\* s.split(sep), sep non-empty: the parts of s from index start on
RECURSIVE SplitFrom(_, _, _)
SplitFrom(s, sep, start) ==
    LET i == IndexFrom(s, sep, start) IN
    IF i = 0 THEN <<SubSeq(s, start, Len(s))>>
    ELSE <<SubSeq(s, start, i - 1)>> \o SplitFrom(s, sep, i + Len(sep))

Split(s, sep) == SplitFrom(s, sep, 1)

\* sep.join(parts)
RECURSIVE Join(_, _)
Join(parts, sep) ==
    IF parts = <<>> THEN ""
    ELSE IF Len(parts) = 1 THEN parts[1]
    ELSE parts[1] \o sep \o Join(Tail(parts), sep)

\* whether word occurs in s at index i between two \b word boundaries
WordAt(s, word, i) ==
    /\ i + Len(word) - 1 <= Len(s)
    /\ SubSeq(s, i, i + Len(word) - 1) = word
    /\ (i = 1 \/ ~IsWordChar(Char(s, i - 1)))
    /\ (i + Len(word) - 1 = Len(s) \/ ~IsWordChar(Char(s, i + Len(word))))

\* the least index >= from at which word occurs as a whole word, 0 when none
NextWordAt(s, word, from) ==
    LET at == {i \in from..Len(s) : WordAt(s, word, i)}
    IN IF at = {} THEN 0 ELSE Min(at)

\* re.sub(rf'\b{word}\b', repl, s), from index start on
RECURSIVE ReSubWordFrom(_, _, _, _)
ReSubWordFrom(s, word, repl, start) ==
    LET i == NextWordAt(s, word, start) IN
    IF i = 0 THEN SubSeq(s, start, Len(s))
    ELSE SubSeq(s, start, i - 1) \o repl
         \o ReSubWordFrom(s, word, repl, i + Len(word))

ReSubWord(s, word, repl) == ReSubWordFrom(s, word, repl, 1)

\* re.split(rf'\b{word}\b', s), from index start on
RECURSIVE ReSplitWordFrom(_, _, _)
ReSplitWordFrom(s, word, start) ==
    LET i == NextWordAt(s, word, start) IN
    IF i = 0 THEN <<SubSeq(s, start, Len(s))>>
    ELSE <<SubSeq(s, start, i - 1)>> \o ReSplitWordFrom(s, word, i + Len(word))

ReSplitWord(s, word) == ReSplitWordFrom(s, word, 1)

\* the end of the digit run that starts at index i
DigitRunEnd(s, i) ==
    Max({j \in i..Len(s) : \A k \in i..j : Char(s, k) \in DigitChars})

\* re.findall(r'\d+', s), from index start on
RECURSIVE FindAllDigitsFrom(_, _)
FindAllDigitsFrom(s, start) ==
    LET digits == {i \in start..Len(s) : Char(s, i) \in DigitChars} IN
    IF digits = {} THEN <<>>
    ELSE LET i == Min(digits)
             j == DigitRunEnd(s, i)
         IN <<SubSeq(s, i, j)>> \o FindAllDigitsFrom(s, j + 1)

FindAllDigits(s) == FindAllDigitsFrom(s, 1)

\* CharsOf with the number appended whole instead of digit by digit
CharsOfWhole(s) == IF Len(s) = 0 THEN <<>> ELSE <<s>>

\* [digit for digit in num_str]
CharsOf(s) == [i \in 1..Len(s) |-> Char(s, i)]

(***************************************************************************)
(* CalculatorInstructionParser.  TIMES, DIVIDE and SQRT stand for the      *)
(* multiplication, division and square-root glyphs of the source, which     *)
(* are not ASCII; each is one token, distinct from every other token and    *)
(* from every keyword.                                                     *)
(***************************************************************************)
TIMES == "{mul}"
DIVIDE == "{div}"
SQRT == "{rad}"

BinaryOperators == {"+", "-", TIMES, DIVIDE}

number_map ==
    << <<"zero", "0">>, <<"one", "1">>, <<"two", "2">>, <<"three", "3">>,
       <<"four", "4">>, <<"five", "5">>, <<"six", "6">>, <<"seven", "7">>,
       <<"eight", "8">>, <<"nine", "9">> >>

\* for word, digit in self.number_map.items(): instruction = re.sub(...)
\* (the test of Len(t) has TLC compute t before the next word is taken up)
RECURSIVE ReplaceNumberWords(_, _)
ReplaceNumberWords(s, k) ==
    IF k > Len(number_map) THEN s
    ELSE LET t == ReSubWord(s, number_map[k][1], number_map[k][2]) IN
         IF Len(t) >= 0 THEN ReplaceNumberWords(t, k + 1) ELSE t

\* the text parse works on: lower-cased, stripped, number words replaced
Normalize(text) == ReplaceNumberWords(Strip(Lower(text)), 1)

\* mutant of DetermineOperation: the scan in the opposite order
DetermineOperationDivideFirst(s) ==
    IF Contains(s, "divide") THEN DIVIDE
    ELSE IF Contains(s, "multiply") \/ Contains(s, "times") \/ Contains(s, "by")
         THEN TIMES
    ELSE IF Contains(s, "subtract") \/ Contains(s, "minus") THEN "-"
    ELSE IF Contains(s, "add") \/ Contains(s, "plus") THEN "+"
    ELSE None

\* the fixed-priority keyword scan that determines the operation
DetermineOperation(s) ==
    IF Contains(s, "add") \/ Contains(s, "plus") THEN "+"
    ELSE IF Contains(s, "subtract") \/ Contains(s, "minus") THEN "-"
    ELSE IF Contains(s, "multiply") \/ Contains(s, "times") \/ Contains(s, "by")
         THEN TIMES
    ELSE IF Contains(s, "divide") THEN DIVIDE
    ELSE None

\* the digits of each number, the operation between consecutive numbers
RECURSIVE Interleave(_, _)
Interleave(numbers, operation) ==
    IF numbers = <<>> THEN <<>>
    ELSE IF Len(numbers) = 1 THEN CharsOf(numbers[1])
    ELSE CharsOf(numbers[1]) \o <<operation>> \o Interleave(Tail(numbers), operation)

\* AndForm with the right operand read from the left part
AndFormRightFromLeft(s, operation) ==
    IF Contains(s, "and") /\ operation # None
    THEN LET parts == ReSplitWord(s, "and") IN
         IF Len(parts) >= 2
         THEN LET left_numbers == FindAllDigits(parts[1])
                  right_numbers == FindAllDigits(parts[1])
              IN IF left_numbers # <<>> /\ right_numbers # <<>>
                 THEN CharsOf(left_numbers[1]) \o <<operation>>
                      \o CharsOf(right_numbers[1]) \o <<"=">>
                 ELSE <<>>
         ELSE <<>>
    ELSE <<>>

\* mutant of AndForm: the last digit run of each side
AndFormLastRuns(s, operation) ==
    IF Contains(s, "and") /\ operation # None
    THEN LET parts == ReSplitWord(s, "and") IN
         IF Len(parts) >= 2
         THEN LET left_numbers == FindAllDigits(parts[1])
                  right_numbers == FindAllDigits(parts[2])
              IN IF left_numbers # <<>> /\ right_numbers # <<>>
                 THEN CharsOf(left_numbers[Len(left_numbers)]) \o <<operation>>
                      \o CharsOf(right_numbers[Len(right_numbers)]) \o <<"=">>
                 ELSE <<>>
         ELSE <<>>
    ELSE <<>>

\* the "and" form: the sequence it returns, <<>> when it does not apply
AndForm(s, operation) ==
    IF Contains(s, "and") /\ operation # None
    THEN LET parts == ReSplitWord(s, "and") IN
         IF Len(parts) >= 2
         THEN LET left_numbers == FindAllDigits(parts[1])
                  right_numbers == FindAllDigits(parts[2])
              IN IF left_numbers # <<>> /\ right_numbers # <<>>
                 THEN CharsOf(left_numbers[1]) \o <<operation>>
                      \o CharsOf(right_numbers[1]) \o <<"=">>
                 ELSE <<>>
         ELSE <<>>
    ELSE <<>>

\* Fallback without the branch for a bare "square"
FallbackNoBareSquare(s, operation) ==
    LET numbers == FindAllDigits(s) IN
    IF operation # None /\ Len(numbers) >= 2
    THEN Interleave(numbers, operation) \o <<"=">>
    ELSE IF Len(numbers) = 1
    THEN CharsOf(numbers[1]) \o
         (IF Contains(s, "square") /\ ~Contains(s, "root") THEN <<"square">>
          ELSE IF Contains(s, "square root") \/ Contains(s, "sqrt") THEN <<SQRT>>
          ELSE <<>>)
    ELSE IF numbers = <<>> /\ (Contains(s, "square root") \/ Contains(s, "sqrt"))
    THEN <<SQRT>>
    ELSE <<>>

\* Fallback that builds the operation from one number on
FallbackFromOneNumber(s, operation) ==
    LET numbers == FindAllDigits(s) IN
    IF operation # None /\ Len(numbers) >= 1
    THEN Interleave(numbers, operation) \o <<"=">>
    ELSE IF numbers = <<>> /\ Contains(s, "square") THEN <<"square">>
    ELSE IF numbers = <<>> /\ (Contains(s, "square root") \/ Contains(s, "sqrt"))
    THEN <<SQRT>>
    ELSE <<>>

\* the fallback after the "and" form
Fallback(s, operation) ==
    LET numbers == FindAllDigits(s) IN
    IF operation # None /\ Len(numbers) >= 2
    THEN Interleave(numbers, operation) \o <<"=">>
    ELSE IF Len(numbers) = 1
    THEN CharsOf(numbers[1]) \o
         (IF Contains(s, "square") /\ ~Contains(s, "root") THEN <<"square">>
          ELSE IF Contains(s, "square root") \/ Contains(s, "sqrt") THEN <<SQRT>>
          ELSE <<>>)
    ELSE IF numbers = <<>> /\ Contains(s, "square") THEN <<"square">>
    ELSE IF numbers = <<>> /\ (Contains(s, "square root") \/ Contains(s, "sqrt"))
    THEN <<SQRT>>
    ELSE <<>>

_parse_single_operation(s) ==
    LET operation == DetermineOperation(s)
        and_buttons == AndForm(s, operation)
    IN IF and_buttons # <<>> THEN and_buttons ELSE Fallback(s, operation)

HasOperator(bs) == \E i \in 1..Len(bs) : bs[i] \in BinaryOperators

\* EnsureEquals that also appends "=" to the empty sequence
EnsureEqualsOnEmpty(bs) ==
    IF bs = <<>> \/ (bs[Len(bs)] # "=" /\ HasOperator(bs))
    THEN Append(bs, "=") ELSE bs

\* append "=" to a non-empty sequence that holds an operator and does not end in "="
EnsureEquals(bs) ==
    IF bs # <<>> /\ bs[Len(bs)] # "=" /\ HasOperator(bs)
    THEN Append(bs, "=") ELSE bs

\* SecondPart without the unary vocabulary: the text is parsed as an operation
SecondPartDelegates(second_part) == _parse_single_operation(second_part)

\* what parse appends for the text after "then"
SecondPart(second_part) ==
    IF Contains(second_part, "square") /\ ~Contains(second_part, "root")
    THEN <<"square">>
    ELSE IF \/ Contains(second_part, "square root")
            \/ Contains(second_part, "sqrt")
            \/ Contains(second_part, SQRT)
    THEN <<SQRT>>
    ELSE IF Contains(second_part, "find") /\ Contains(second_part, "square")
    THEN <<"square">>
    ELSE _parse_single_operation(second_part)

\* ParseNormalized without the "then" split
parse_NoThen(s) == EnsureEquals(_parse_single_operation(s))

\* parse from the "then" split on, s being the normalized text
ParseNormalized(s) ==
    IF Contains(s, "then")
    THEN LET parts == Split(s, "then")
             first_part == Strip(parts[1])
             second_part == Strip(Join(Tail(parts), " then "))
         IN EnsureEquals(_parse_single_operation(first_part))
            \o SecondPart(second_part)
    ELSE EnsureEquals(_parse_single_operation(s))

parse(text) == ParseNormalized(Normalize(text))

(***************************************************************************)
(* The safety check calculator_nlp_control.main applies to the sequence     *)
(* parse returned: an "=" is inserted before the first unary token when an  *)
(* operator precedes it and the token before it is not "=".                *)
(***************************************************************************)
UnaryTokens == {"square", SQRT}

SafetyCheck(bs) ==
    IF \E i \in 1..Len(bs) : bs[i] \in UnaryTokens
    THEN LET square_idx == CHOOSE i \in 1..Len(bs) :
                               /\ bs[i] \in UnaryTokens
                               /\ \A j \in 1..(i - 1) : bs[j] \notin UnaryTokens
         IN IF /\ square_idx > 1
               /\ bs[square_idx - 1] # "="
               /\ HasOperator(SubSeq(bs, 1, square_idx - 1))
            THEN SubSeq(bs, 1, square_idx - 1) \o <<"=">>
                 \o SubSeq(bs, square_idx, Len(bs))
            ELSE bs
    ELSE bs

(***************************************************************************)
(* CalculatorController._find_node_by_name.  A node is a record of its id,  *)
(* g_icon_name, g_brief and bbox; the map is the sequence of its nodes in   *)
(* the order nodes.items() yields them.  SQUARED stands for the             *)
(* superscript-two glyph of the "x squared" label.                         *)
(***************************************************************************)
SQUARED == "{2}"

\* button_mappings: the keys and, for each key, its patterns
MappedNames == {"+", "=", "-", TIMES, "*", DIVIDE, "/", "square", SQRT}

button_mappings(key) ==
    CASE key = "+" -> <<"+ button", "addition">>
      [] key = "=" -> <<"= button", "equals">>
      [] key = "-" -> <<"- button", "minus", "subtract">>
      [] key \in {TIMES, "*"} -> <<TIMES \o " button", "multiplication">>
      [] key \in {DIVIDE, "/"} -> <<DIVIDE \o " button", "division">>
      [] key = "square" -> <<"x" \o SQUARED \o " button", "square">>
      [] key = SQRT -> <<SQRT \o "x button", "square root">>

\* for each node, in order, its id and the icon_name and brief the loops compute
Labels(ns) ==
    [i \in 1..Len(ns) |->
        [id |-> ns[i].id,
         icon_name |-> Lower(ns[i].g_icon_name),
         brief |-> Lower(ns[i].g_brief)]]

icon_name(node) == node.icon_name
brief(node) == node.brief

\* the id of the first node of ns, in order, among those at the indices
\* hits; None when there is none
FirstNode(ns, hits) == IF hits = {} THEN None ELSE ns[Min(hits)].id

\* first pass, name "+": the exact "+ button", or an addition button that is
\* neither a memory button nor the sign toggle
PlusMatch(node) ==
    \/ icon_name(node) = "+ button"
    \/ /\ Contains(brief(node), "addition")
       /\ Contains(icon_name(node), "+")
       /\ ~StartsWith(icon_name(node), "m")
       /\ ~Contains(icon_name(node), "+/-")

\* first pass, the other mapped names: some pattern occurs in the label or the brief
PatternMatch(node, patterns) ==
    \E k \in 1..Len(patterns) :
        Contains(icon_name(node), patterns[k]) \/ Contains(brief(node), patterns[k])

FirstPass(ns, name_lower) ==
    IF name_lower \in MappedNames
    THEN IF name_lower = "+"
         THEN FirstNode(ns, {i \in 1..Len(ns) : PlusMatch(ns[i])})
         ELSE LET patterns == button_mappings(name_lower) IN
              FirstNode(ns, {i \in 1..Len(ns) : PatternMatch(ns[i], patterns)})
    ELSE None

\* second pass: the digit buttons
SecondPass(ns, name_lower) ==
    IF IsDigit(name_lower)
    THEN FirstNode(ns, {i \in 1..Len(ns) :
                           Contains(icon_name(ns[i]), name_lower \o " button")})
    ELSE None

\* ThirdPassMatch without the validation of lines 114-122: any name that
\* occurs in the label or the brief is accepted
ThirdPassAnyName(node, name_original, name_lower) ==
    \/ Contains(icon_name(node), name_original)
    \/ Contains(icon_name(node), name_lower)
    \/ Contains(brief(node), name_lower)

\* third pass: the name occurs in the label or the brief, and the name is
\* one of those the fallback validates
ThirdPassMatch(node, name_original, name_lower) ==
    /\ \/ Contains(icon_name(node), name_original)
       \/ Contains(icon_name(node), name_lower)
       \/ Contains(brief(node), name_lower)
    /\ \/ /\ name_lower = "+"
          /\ Contains(icon_name(node), "+") \/ Contains(brief(node), "addition")
       \/ /\ name_lower = "="
          /\ Contains(icon_name(node), "=") \/ Contains(brief(node), "equals")
       \/ /\ name_lower = "square"
          /\ \/ Contains(icon_name(node), "square")
             \/ Contains(icon_name(node), "x" \o SQUARED)

ThirdPass(ns, name_original, name_lower) ==
    FirstNode(ns, {i \in 1..Len(ns) : ThirdPassMatch(ns[i], name_original, name_lower)})

_find_node_by_name(ns, button_name) ==
    LET name_lower == Strip(Lower(button_name))
        name_original == Strip(button_name)
        labels == Labels(ns)
        first == FirstPass(labels, name_lower)
        second == SecondPass(labels, name_lower)
    IN IF first # None THEN first
       ELSE IF second # None THEN second
       ELSE ThirdPass(labels, name_original, name_lower)

(***************************************************************************)
(* The desktop as the GUI backend (SimpleWindowAPI) reports it.  Window    *)
(* ids are 1..MaxWindows and get_windows lists the open ones by id.  NoId   *)
(* and NoPos stand for None in self.window_id and self.window_pos.         *)
(***************************************************************************)
MaxWindows == 2

WindowIds == 1..MaxWindows
NoId == 0
NoPos == <<>>

Closed == [open |-> FALSE, title |-> "", position |-> <<0, 0>>]
OpenWindow(title, position) == [open |-> TRUE, title |-> title, position |-> position]

\* gui_api.get_windows(): the ids of the open windows
get_windows(W) == {id \in DOMAIN W : W[id].open}

\* gui_api.get_window_info(id) is not None
HasWindowInfo(W, id) == id \in get_windows(W)

(***************************************************************************)
(* CalculatorController._find_calculator_window                            *)
(***************************************************************************)
ExcludedFragments == {"cursor", "code", "visual studio", "pycharm", "intellij"}
calculator_patterns == {"calculator", "calc"}

\* the body of the loop: the window is not skipped and one of the patterns
\* leads to the return
AcceptsTitle(window_title) ==
    LET title == Lower(window_title) IN
    /\ ~\E exclude \in ExcludedFragments : Contains(title, exclude)
    /\ \E pattern \in calculator_patterns :
           /\ Contains(title, pattern)
           /\ title = "calculator" \/ StartsWith(title, "calculator")

\* mutant of _find_calculator_window: the first window that is not skipped
\* and whose title contains a pattern
FindByPatternOnly(W) ==
    LET hits == {id \in get_windows(W) :
                    LET title == Lower(W[id].title) IN
                    /\ ~\E exclude \in ExcludedFragments : Contains(title, exclude)
                    /\ \E pattern \in calculator_patterns : Contains(title, pattern)}
    IN IF hits = {} THEN NoId ELSE Min(hits)

_find_calculator_window(W) ==
    LET hits == {id \in get_windows(W) : AcceptsTitle(W[id].title)} IN
    IF hits = {} THEN NoId ELSE Min(hits)

ApplicationName == "calculator"

\* the target-window identity predicate: no exclusion-set entry occurs in
\* the title, and the title is the application name or begins with it
IsTargetTitle(window_title) ==
    LET title == Lower(window_title) IN
    /\ \A exclude \in ExcludedFragments : ~Contains(title, exclude)
    /\ title = ApplicationName \/ StartsWith(title, ApplicationName)

\* a window that satisfies the predicate is listed
TargetOpen(W) == \E id \in get_windows(W) : IsTargetTitle(W[id].title)

(***************************************************************************)
(* CalculatorController._update_window_position.  self is the record of    *)
(* window_id and window_pos; the result is self after the call.            *)
(***************************************************************************)
RECURSIVE _update_window_position(_, _)
_update_window_position(W, self) ==
    IF self.window_id = NoId THEN self
    ELSE IF HasWindowInfo(W, self.window_id)
         THEN [self EXCEPT !.window_pos = W[self.window_id].position]
         ELSE LET researched == [self EXCEPT !.window_id = _find_calculator_window(W)] IN
              IF researched.window_id # NoId
              THEN _update_window_position(W, researched)
              ELSE researched

(***************************************************************************)
(* The process launcher (AppController.launch_app): it fails, or it        *)
(* succeeds and reports the id of the window it opened, a window titled    *)
(* "Calculator" at LaunchPosition.  listed tells whether the GUI backend   *)
(* lists that window when the settle delay of open_calculator is over.     *)
(***************************************************************************)
LaunchPosition == <<100, 50>>

LaunchFailed == [success |-> FALSE, window_id |-> NoId, listed |-> FALSE]

launch_app(W) ==
    {LaunchFailed} \cup
    {[success |-> TRUE, window_id |-> id, listed |-> listed] :
        id \in WindowIds \ get_windows(W), listed \in BOOLEAN}

AfterLaunch(W, launch) ==
    IF launch.success /\ launch.listed
    THEN [W EXCEPT ![launch.window_id] = OpenWindow("Calculator", LaunchPosition)]
    ELSE W

(***************************************************************************)
(* What a call of open_calculator or click_button did: its result          *)
(* (success, error), whether it invoked the launcher, and for click_button *)
(* whether the position refresh and the search that follows it both        *)
(* failed, whether the click point was computed, whether gui_api.click was *)
(* called, with which point, and the tracked window and its title then;    *)
(* the window of the last focus_window request before the click, whether   *)
(* the verification of lines 279-295 saw a title that is not the           *)
(* calculator's, and whether the position was read again after that.       *)
(* For execute_calculation it is the response: success, button_sequence    *)
(* and results.  tool is the tool of the tools/call request the call was   *)
(* made for.                                                               *)
(***************************************************************************)
NoCall ==
    [op |-> "none", tool |-> "none", button |-> "", success |-> FALSE, error |-> "",
     launched |-> FALSE, target_open |-> FALSE, refresh_failed |-> FALSE,
     computed |-> FALSE, clicked |-> FALSE, point |-> <<>>,
     window |-> NoId, title |-> "", focused |-> NoId, mismatch |-> FALSE,
     reread |-> FALSE, button_sequence |-> <<>>, results |-> <<>>]

Returned(W, self, outcome) == [self |-> self, windows |-> W, outcome |-> outcome]

(***************************************************************************)
(* CalculatorController.open_calculator: the set of the returns the call   *)
(* can make, one for each thing the launcher and the GUI backend can do.   *)
(* focus_raises tells whether gui_api.focus_window raises when handed an   *)
(* id the backend does not list.                                           *)
(***************************************************************************)
AlreadyOpen(W, self, found_id) ==
    Returned(W, _update_window_position(W, [self EXCEPT !.window_id = found_id]),
             [NoCall EXCEPT !.success = TRUE, !.window = found_id])

LaunchCalculator(W, self, launch, focus_raises) ==
    IF launch.success
    THEN LET listed == AfterLaunch(W, launch)
             refound == _find_calculator_window(listed)
             tracked == [self EXCEPT !.window_id =
                            IF refound # NoId THEN refound ELSE launch.window_id]
         IN IF ~HasWindowInfo(listed, tracked.window_id) /\ focus_raises
            THEN Returned(listed, tracked,
                          [NoCall EXCEPT !.launched = TRUE, !.error = "exception"])
            ELSE LET updated == _update_window_position(listed, tracked) IN
                 Returned(listed, updated,
                          [NoCall EXCEPT !.launched = TRUE, !.success = TRUE,
                                         !.window = updated.window_id])
    ELSE Returned(W, self, [NoCall EXCEPT !.launched = TRUE, !.error = "launch failed"])

Launches(W, self) ==
    {LaunchCalculator(W, self, launch, focus_raises) :
        launch \in launch_app(W), focus_raises \in BOOLEAN}

\* mutant of open_calculator: the launch without the search that precedes it
open_calculator_Relaunch(W, self) == Launches(W, self)

open_calculator(W, self) ==
    LET found_id == _find_calculator_window(W) IN
    IF found_id # NoId THEN {AlreadyOpen(W, self, found_id)} ELSE Launches(W, self)

(***************************************************************************)
(* CalculatorController.click_button: the set of the returns the call can  *)
(* make.  click_result is what gui_api.click does: it returns True         *)
(* ("clicked"), returns False ("refused") or raises.                       *)
(***************************************************************************)
ClickResults == {"clicked", "refused", "raised"}

Center(bbox) == <<(bbox[1] + bbox[3]) \div 2, (bbox[2] + bbox[4]) \div 2>>
Absolute(pos, center) == <<pos[1] + center[1], pos[2] + center[2]>>

\* the title test of the verification that precedes the click
TitleMismatch(window_title) ==
    LET title == Lower(window_title) IN
    ~Contains(title, "calculator") \/ Contains(title, "cursor")

\* VerifyWindow without the focus request of line 290: after the switch the
\* last window asked to take the focus is the one tracked before
VerifyWindowFocusesOld(W, self) ==
    LET kept == [self |-> self, focused |-> self.window_id,
                 mismatch |-> FALSE, reread |-> FALSE]
    IN IF HasWindowInfo(W, self.window_id) /\ TitleMismatch(W[self.window_id].title)
       THEN LET calc_window == _find_calculator_window(W) IN
            IF calc_window # NoId /\ calc_window # self.window_id
            THEN [self |-> _update_window_position(W,
                               [self EXCEPT !.window_id = calc_window]),
                  focused |-> self.window_id, mismatch |-> TRUE, reread |-> TRUE]
            ELSE [kept EXCEPT !.mismatch = TRUE]
       ELSE kept

\* lines 276-295: the focus request on the tracked window and the
\* verification; self after them, the window of the last focus request,
\* whether the title did not match and whether the position was read again
VerifyWindow(W, self) ==
    LET kept == [self |-> self, focused |-> self.window_id,
                 mismatch |-> FALSE, reread |-> FALSE]
    IN IF HasWindowInfo(W, self.window_id) /\ TitleMismatch(W[self.window_id].title)
       THEN LET calc_window == _find_calculator_window(W) IN
            IF calc_window # NoId /\ calc_window # self.window_id
            THEN [self |-> _update_window_position(W,
                               [self EXCEPT !.window_id = calc_window]),
                  focused |-> calc_window, mismatch |-> TRUE, reread |-> TRUE]
            ELSE [kept EXCEPT !.mismatch = TRUE]
       ELSE kept

\* lines 297-306: the click and the result made of what it returns
Click(W, self, point, outcome, click_result) ==
    Returned(W, self,
        [outcome EXCEPT
            !.clicked = TRUE,
            !.point = point,
            !.window = self.window_id,
            !.title = IF HasWindowInfo(W, self.window_id)
                      THEN W[self.window_id].title ELSE "",
            !.success = (click_result = "clicked"),
            !.error = CASE click_result = "clicked" -> ""
                        [] click_result = "refused" -> "Failed to click"
                        [] click_result = "raised" -> "exception"])

\* lines 274-306: the focus, the verification and the click
FocusAndClick(W, self, center, outcome) ==
    LET raised == IF HasWindowInfo(W, self.window_id) THEN {}
                  ELSE {Returned(W, self, [outcome EXCEPT !.error = "exception"])}
        verified == VerifyWindow(W, self)
        focused == [outcome EXCEPT !.focused = verified.focused,
                                   !.mismatch = verified.mismatch,
                                   !.reread = verified.reread]
    IN raised \cup {Click(W, verified.self,
                          Absolute(verified.self.window_pos, center),
                          focused, click_result) : click_result \in ClickResults}

\* ClickNode without the test of line 264: a box that has not four numbers
\* is clicked at the window's corner
ClickNodeAnyBox(W, self, node_data, outcome) ==
    LET updated == _update_window_position(W, self)
        bbox == node_data.bbox
    IN IF updated.window_pos = NoPos
       THEN {Returned(W, updated,
                      [outcome EXCEPT !.error = "Could not get window position"])}
       ELSE FocusAndClick(W, updated,
                          IF Len(bbox) = 4 THEN Center(bbox) ELSE <<0, 0>>,
                          [outcome EXCEPT !.computed = TRUE])

\* lines 257-306: the button has a node
ClickNode(W, self, node_data, outcome) ==
    LET updated == _update_window_position(W, self)
        refreshed == [outcome EXCEPT !.refresh_failed =
                         /\ self.window_id # NoId
                         /\ ~HasWindowInfo(W, self.window_id)
                         /\ updated.window_id = NoId]
        bbox == node_data.bbox
    IN IF updated.window_pos = NoPos
       THEN {Returned(W, updated,
                      [refreshed EXCEPT !.error = "Could not get window position"])}
       ELSE IF Len(bbox) # 4
       THEN {Returned(W, updated, [refreshed EXCEPT !.error = "Invalid bbox"])}
       ELSE FocusAndClick(W, updated, Center(bbox),
                          [refreshed EXCEPT !.computed = TRUE])

\* lines 244-306: open_calculator, if it was called, has returned opened
ClickOpened(opened, fdom, node_id) ==
    LET outcome == [NoCall EXCEPT !.launched = opened.outcome.launched]
    IN IF ~opened.outcome.success
       THEN {Returned(opened.windows, opened.self,
                      [outcome EXCEPT !.error = opened.outcome.error])}
       ELSE IF node_id = None
       THEN {Returned(opened.windows, opened.self,
                      [outcome EXCEPT !.error = "not found in fdom.json"])}
       ELSE ClickNode(opened.windows, opened.self,
                      fdom[CHOOSE i \in 1..Len(fdom) : fdom[i].id = node_id],
                      outcome)

click_button(W, self, fdom, button_name) ==
    LET openeds == IF self.window_id = NoId
                   THEN open_calculator(W, self)
                   ELSE {Returned(W, self, [NoCall EXCEPT !.success = TRUE])}
        node_id == _find_node_by_name(fdom, button_name)
    IN UNION {ClickOpened(opened, fdom, node_id) : opened \in openeds}

\* the controller as the operators above take it
Self == [window_id |-> window_id, window_pos |-> window_pos]

\* what the controller and the desktop are after a call that returned r
Becomes(r) ==
    /\ windows' = r.windows
    /\ window_id' = r.self.window_id
    /\ window_pos' = r.self.window_pos

(***************************************************************************)
(* The values of the variables a specification does not use.               *)
(***************************************************************************)
ParserUnused == instruction = "" /\ normalized = "" /\ buttons = <<>>
ResolverUnused == name = "" /\ found = None
DesktopUnused ==
    /\ windows = [id \in WindowIds |-> Closed]
    /\ located = NoId
    /\ searches = 0
ControllerUnused ==
    /\ window_id = NoId
    /\ window_pos = NoPos
    /\ call = NoCall
    /\ token = 0
    /\ results = <<>>

(***************************************************************************)
(* SpecParse: parse applied to each text of a bounded set.                  *)
(***************************************************************************)
MaxWords == 3

\* the first word of a clause
Openers == {"", "Add", "subtract", "multiply", "divide"}

\* the words that follow it
Vocabulary == {"2", "12", "one", "and", "by", "square", "root"}

\* what follows the clause
Tails ==
    {"", " then find the square of the result", " then sqrt", " then 3",
     " then square 3"}

\* the instructions the documentation and the tests give
Examples ==
    {"Add 2 and 3 and then find the square of the result",
     "multiply 12 by 7", "square the result",
     "divide 8 by 2", "subtract 3 plus 4", "3 times 4 minus 1",
     "8 divide 2 add 1", "divide 8 minus 2", "times 3 plus 4",
     "add 2 5 and 3 7 and 9", "add one 2 and 3", "find the sqrt"}

RECURSIVE WordLists(_)
WordLists(n) ==
    IF n = 0 THEN {""}
    ELSE LET shorter == WordLists(n - 1) IN
         shorter \cup {c \o " " \o w : c \in shorter, w \in Vocabulary}

Instructions ==
    {o \o c \o t : o \in Openers, c \in WordLists(MaxWords), t \in Tails}
    \cup Examples

InitParse ==
    /\ instruction \in Instructions
    /\ normalized = ""
    /\ buttons = <<>>
    /\ nodes = <<>>
    /\ name = ""
    /\ found = None
    /\ DesktopUnused
    /\ ControllerUnused
    /\ pc = "parse"

\* parse(instruction): the text is normalized, then cut at "then" and parsed
Parse ==
    /\ pc = "parse"
    /\ normalized' = Normalize(instruction)
    /\ buttons' = ParseNormalized(normalized')
    /\ pc' = "parsed"
    /\ UNCHANGED <<instruction, nodes, resolverVars, windows, trackerVars,
                   controllerVars, executorVars>>

NextParse == Parse

SpecParse == InitParse /\ [][NextParse]_vars

(***************************************************************************)
(* SpecFind: _find_node_by_name applied to each name of a set, on each map  *)
(* of at most MaxNodes nodes drawn, in any order, from a set of labelled    *)
(* nodes, and then click_button called with that name on that map by a     *)
(* controller that tracks no window yet.                                   *)
(***************************************************************************)
MaxNodes == 3

Node(id, icon, desc) ==
    [id |-> id, g_icon_name |-> icon, g_brief |-> desc, bbox |-> <<0, 0, 10, 10>>]

LabelledNodes ==
    {Node("plus", "+ Button", "Addition operator"),
     Node("mplus", "M+ Button", "Memory add"),
     Node("sign", "+/- Button", "Toggles the sign, not an addition"),
     Node("add", "Add", "Addition (+)"),
     Node("equals", "= Button", "Equals"),
     Node("two", "2 Button", "Digit two"),
     Node("minus", "- Button", "Subtract"),
     Node("dash", "-", "Difference of two numbers"),
     Node("twelve", "12 Button", "Twelve"),
     Node("sq", "x" \o SQUARED \o " Button", "Square"),
     Node("root", SQRT \o "x Button", "Square root")}

Names == {"+", "=", "2", "-", "square", "equals"}

RECURSIVE Maps(_)
Maps(n) ==
    IF n = 0 THEN {<<>>}
    ELSE LET shorter == Maps(n - 1) IN
         shorter \cup {Append(m, node) : m \in shorter,
                          node \in LabelledNodes} 

\* the maps whose nodes are distinct
DistinctMaps ==
    {m \in Maps(MaxNodes) : \A i, j \in 1..Len(m) : i # j => m[i] # m[j]}

InitFind ==
    /\ nodes \in DistinctMaps
    /\ name \in Names
    /\ found = None
    /\ ParserUnused
    /\ DesktopUnused
    /\ ControllerUnused
    /\ pc = "find"

Find ==
    /\ pc = "find"
    /\ found' = _find_node_by_name(nodes, name)
    /\ pc' = "found"
    /\ UNCHANGED <<parserVars, nodes, name, windows, trackerVars,
                   controllerVars, executorVars>>

\* click_button(name) on the map, lines 236-309
ClickFound ==
    /\ pc = "found"
    /\ \E r \in click_button(windows, Self, nodes, name) :
          /\ Becomes(r)
          /\ call' = [r.outcome EXCEPT !.op = "click_button",
                                       !.tool = "click_button",
                                       !.button = name,
                                       !.target_open = TargetOpen(windows)]
    /\ pc' = "clicked"
    /\ UNCHANGED <<parserVars, nodes, resolverVars, trackerVars, token, results>>

NextFind == Find \/ ClickFound

SpecFind == InitFind /\ [][NextFind]_vars

(***************************************************************************)
(* SpecLocate: _find_calculator_window applied to each desktop of at most  *)
(* MaxWindows windows whose titles are drawn from LocateTitles.            *)
(***************************************************************************)
LocateTitles ==
    {"Calculator", "CALCULATOR - Standard", "Calculator - Cursor",
     "calculator.py - Visual Studio Code", "My Calculator", "Calc", "Notepad"}

InitLocate ==
    /\ windows \in [WindowIds -> {Closed} \cup
                        {OpenWindow(title, <<0, 0>>) : title \in LocateTitles}]
    /\ located = NoId
    /\ searches = 0
    /\ nodes = <<>>
    /\ ParserUnused
    /\ ResolverUnused
    /\ ControllerUnused
    /\ pc = "locate"

Locate ==
    /\ pc = "locate"
    /\ located' = _find_calculator_window(windows)
    /\ pc' = "located"
    /\ UNCHANGED <<parserVars, nodes, resolverVars, windows, searches,
                   controllerVars, executorVars>>

NextLocate == Locate

SpecLocate == InitLocate /\ [][NextLocate]_vars

(***************************************************************************)
(* Spec: the server (CalculatorMCPServer.handle_request) on a desktop whose *)
(* windows open, close, move and change their titles between the calls.    *)
(* The tools open_calculator and click_button are one step each;           *)
(* execute_calculation is one step for the parse and open_calculator, one  *)
(* step for each button of the sequence and one step for the return, and   *)
(* the desktop may change between these steps.                             *)
(***************************************************************************)
Titles == {"Calculator", "Calculator - Cursor", "My Calculator"}
Positions == {<<0, 0>>, LaunchPosition}

\* the interface map of the run
CalcFdom ==
    <<[id |-> "n2", g_icon_name |-> "2 Button", g_brief |-> "Digit two",
       bbox |-> <<10, 20, 31, 41>>],
      [id |-> "nplus", g_icon_name |-> "+ Button", g_brief |-> "Addition",
       bbox |-> <<40, 20, 60, 40>>],
      [id |-> "nsq", g_icon_name |-> "x" \o SQUARED \o " Button", g_brief |-> "Square",
       bbox |-> <<70, 20, 90>>],
      [id |-> "neq", g_icon_name |-> "= Button", g_brief |-> "Equals",
       bbox |-> <<>>]>>

\* the arguments of the tool calls
ButtonArguments == {"", "2", "square", "="}
InstructionArguments == {"", "hello", "add", "one", "square 2 then 2"}

Init ==
    /\ windows \in [WindowIds -> {Closed} \cup
                        {OpenWindow(title, position) :
                            title \in Titles, position \in Positions}]
    /\ located = NoId
    /\ searches = 0
    /\ nodes = CalcFdom
    /\ ParserUnused
    /\ ResolverUnused
    /\ ControllerUnused
    /\ pc = "idle"

\* tools/call open_calculator
OpenCalculator ==
    /\ pc = "idle"
    /\ \E r \in open_calculator(windows, Self) :
          /\ Becomes(r)
          /\ call' = [r.outcome EXCEPT !.op = "open_calculator",
                                       !.tool = "open_calculator",
                                       !.target_open = TargetOpen(windows)]
    /\ UNCHANGED <<parserVars, nodes, resolverVars, trackerVars, token, results, pc>>

\* tools/call click_button
ClickButton ==
    /\ pc = "idle"
    /\ \E button \in ButtonArguments :
          IF button = ""
          THEN /\ call' = [NoCall EXCEPT !.op = "click_button",
                                         !.tool = "click_button",
                                         !.error = "No button provided"]
               /\ UNCHANGED <<windows, controllerVars>>
          ELSE \E r \in click_button(windows, Self, nodes, button) :
                  /\ Becomes(r)
                  /\ call' = [r.outcome EXCEPT !.op = "click_button",
                                               !.tool = "click_button",
                                               !.button = button,
                                               !.target_open = TargetOpen(windows)]
    /\ UNCHANGED <<parserVars, nodes, resolverVars, trackerVars, token, results, pc>>

\* tools/call execute_calculation, up to the loop
ExecuteStart ==
    /\ pc = "idle"
    /\ \E text \in InstructionArguments :
          IF text = ""
          THEN /\ call' = [NoCall EXCEPT !.op = "execute_calculation",
                                         !.tool = "execute_calculation",
                                         !.error = "No instruction provided"]
               /\ UNCHANGED <<parserVars, windows, controllerVars, pc>>
          ELSE \E r \in open_calculator(windows, Self) :
                  /\ Becomes(r)
                  /\ call' = [r.outcome EXCEPT !.op = "open_calculator",
                                               !.tool = "execute_calculation",
                                               !.target_open = TargetOpen(windows)]
                  /\ IF r.outcome.success
                     THEN /\ instruction' = text
                          /\ normalized' = Normalize(text)
                          /\ buttons' = ParseNormalized(normalized')
                          /\ pc' = "exec"
                     ELSE UNCHANGED <<parserVars, pc>>
    /\ token' = 0
    /\ results' = <<>>
    /\ UNCHANGED <<nodes, resolverVars, trackerVars>>

\* a loop that a failed click_button ends: the remaining buttons are skipped
ExecuteClickStopsOnFailure ==
    /\ pc = "exec"
    /\ token < Len(buttons)
    /\ \E r \in click_button(windows, Self, nodes, buttons[token + 1]) :
          /\ Becomes(r)
          /\ call' = [r.outcome EXCEPT !.op = "click_button",
                                       !.tool = "execute_calculation",
                                       !.button = buttons[token + 1],
                                       !.target_open = TargetOpen(windows)]
          /\ results' = Append(results, [button |-> buttons[token + 1],
                                         success |-> r.outcome.success])
          /\ token' = IF r.outcome.success THEN token + 1 ELSE Len(buttons)
    /\ UNCHANGED <<parserVars, nodes, resolverVars, trackerVars, pc>>

\* one turn of the loop of execute_calculation; an entry of results is the
\* button and what click_button returned for it
ExecuteClick ==
    /\ pc = "exec"
    /\ token < Len(buttons)
    /\ \E r \in click_button(windows, Self, nodes, buttons[token + 1]) :
          /\ Becomes(r)
          /\ call' = [r.outcome EXCEPT !.op = "click_button",
                                       !.tool = "execute_calculation",
                                       !.button = buttons[token + 1],
                                       !.target_open = TargetOpen(windows)]
          /\ results' = Append(results, [button |-> buttons[token + 1],
                                         success |-> r.outcome.success])
    /\ token' = token + 1
    /\ UNCHANGED <<parserVars, nodes, resolverVars, trackerVars, pc>>

\* a return whose success tells whether every button was clicked
ExecuteReturnAllClicked ==
    /\ pc = "exec"
    /\ token = Len(buttons)
    /\ call' = [NoCall EXCEPT !.op = "execute_calculation",
                              !.tool = "execute_calculation",
                              !.success = \A i \in 1..Len(results) : results[i].success,
                              !.button_sequence = buttons, !.results = results]
    /\ instruction' = "" /\ normalized' = "" /\ buttons' = <<>>
    /\ token' = 0 /\ results' = <<>>
    /\ pc' = "idle"
    /\ UNCHANGED <<nodes, resolverVars, windows, trackerVars, controllerVars>>

\* the return of execute_calculation after the loop
ExecuteReturn ==
    /\ pc = "exec"
    /\ token = Len(buttons)
    /\ call' = [NoCall EXCEPT !.op = "execute_calculation",
                              !.tool = "execute_calculation", !.success = TRUE,
                              !.button_sequence = buttons, !.results = results]
    /\ instruction' = "" /\ normalized' = "" /\ buttons' = <<>>
    /\ token' = 0 /\ results' = <<>>
    /\ pc' = "idle"
    /\ UNCHANGED <<nodes, resolverVars, windows, trackerVars, controllerVars>>

\* the desktop: a window opens, closes, moves, or changes its title; call
\* tells of the call that has just returned, so these steps clear it
WindowOpens ==
    /\ \E id \in WindowIds \ get_windows(windows), title \in Titles,
          position \in Positions :
          windows' = [windows EXCEPT ![id] = OpenWindow(title, position)]
    /\ call' = NoCall
    /\ UNCHANGED <<parserVars, nodes, resolverVars, trackerVars, controllerVars,
                   token, results, pc>>

WindowCloses ==
    /\ \E id \in get_windows(windows) : windows' = [windows EXCEPT ![id] = Closed]
    /\ call' = NoCall
    /\ UNCHANGED <<parserVars, nodes, resolverVars, trackerVars, controllerVars,
                   token, results, pc>>

WindowMoves ==
    /\ \E id \in get_windows(windows), position \in Positions :
          /\ position # windows[id].position
          /\ windows' = [windows EXCEPT ![id].position = position]
    /\ call' = NoCall
    /\ UNCHANGED <<parserVars, nodes, resolverVars, trackerVars, controllerVars,
                   token, results, pc>>

WindowRetitled ==
    /\ \E id \in get_windows(windows), title \in Titles :
          /\ title # windows[id].title
          /\ windows' = [windows EXCEPT ![id].title = title]
    /\ call' = NoCall
    /\ UNCHANGED <<parserVars, nodes, resolverVars, trackerVars, controllerVars,
                   token, results, pc>>

Next ==
    \/ OpenCalculator
    \/ ClickButton
    \/ ExecuteStart
    \/ ExecuteClick
    \/ ExecuteReturn
    \/ WindowOpens
    \/ WindowCloses
    \/ WindowMoves
    \/ WindowRetitled

Spec == Init /\ [][Next]_vars

(***************************************************************************)
(* SpecRefresh: one call of _update_window_position after the other, each  *)
(* taken query by query.  The call asks the GUI backend twice, once for    *)
(* the info of the tracked window (lines 217-219) and once for the list of *)
(* the windows (line 228, in _find_calculator_window), and it sleeps 0.3 s *)
(* before it calls itself (lines 230-232); the desktop may change between  *)
(* these queries.  The operator _update_window_position above is this call *)
(* on a desktop that does not change.  MaxSearches caps the count of the   *)
(* searches of a call.                                                     *)
(***************************************************************************)
MaxSearches == 3

InitRefresh ==
    /\ windows \in [WindowIds -> {Closed} \cup
                        {OpenWindow(title, position) :
                            title \in Titles, position \in Positions}]
    /\ located = NoId
    /\ searches = 0
    /\ nodes = <<>>
    /\ ParserUnused
    /\ ResolverUnused
    /\ window_id \in {NoId} \cup WindowIds
    /\ window_pos \in {NoPos} \cup Positions
    /\ call = NoCall
    /\ token = 0
    /\ results = <<>>
    /\ pc = "returned"

\* a caller calls self._update_window_position()
UpdateCalled ==
    /\ pc = "returned"
    /\ searches' = 0
    /\ pc' = "read"
    /\ UNCHANGED <<parserVars, nodes, resolverVars, windows, located,
                   controllerVars, executorVars>>

\* lines 213-224: no window is tracked, or the info of the tracked window is
\* asked for and, when there is one, gives the position
ReadPosition ==
    /\ pc = "read"
    /\ IF window_id = NoId
       THEN pc' = "returned" /\ UNCHANGED window_pos
       ELSE IF HasWindowInfo(windows, window_id)
       THEN window_pos' = windows[window_id].position /\ pc' = "returned"
       ELSE pc' = "search" /\ UNCHANGED window_pos
    /\ UNCHANGED <<parserVars, nodes, resolverVars, windows, trackerVars,
                   window_id, executorVars>>

\* lines 225-234: the search for the window; when it finds one the call calls
\* itself, else it returns
SearchAgain ==
    /\ pc = "search"
    /\ searches < MaxSearches
    /\ located' = _find_calculator_window(windows)
    /\ window_id' = located'
    /\ searches' = searches + 1
    /\ pc' = IF located' # NoId THEN "read" ELSE "returned"
    /\ UNCHANGED <<parserVars, nodes, resolverVars, windows, window_pos,
                   executorVars>>

NextRefresh ==
    \/ UpdateCalled
    \/ ReadPosition
    \/ SearchAgain
    \/ WindowOpens
    \/ WindowCloses
    \/ WindowMoves
    \/ WindowRetitled

SpecRefresh == InitRefresh /\ [][NextRefresh]_vars

(***************************************************************************)
(* Properties of parse, checked under SpecParse.                           *)
(***************************************************************************)
Parsed == pc = "parsed"

\* the clause before the first "then" and the text after it, as parse cuts them
FirstClause(s) == Strip(Split(s, "then")[1])
SecondClause(s) == Strip(Join(Tail(Split(s, "then")), " then "))

\* the text asks for the square, and not for the square root
AsksForSquare(s) ==
    Contains(s, "square") /\ ~Contains(s, "root") /\ ~Contains(s, "sqrt")

Last(bs) == bs[Len(bs)]

\* C5: when the clause before "then" parses to a binary operation and the
\* clause after it asks for the square, parse returns the first clause's
\* tokens, which end in "=", followed by the one token "square"; the
\* documented instruction gives 2 + 3 = square.
C5_ThenSquare ==
    Parsed =>
        /\ Contains(normalized, "then") =>
              LET first == FirstClause(normalized)
                  second == SecondClause(normalized)
                  first_tokens == parse(first)
              IN (/\ Len(first) >= 0
                  /\ AsksForSquare(second)
                  /\ HasOperator(first_tokens))
                 => /\ buttons = first_tokens \o <<"square">>
                    /\ buttons[Len(buttons) - 1] = "="
        /\ instruction = "Add 2 and 3 and then find the square of the result"
           => buttons = <<"2", "+", "3", "=", "square">>

C5_Witness ==
    /\ Parsed
    /\ instruction = "Add 2 and 3 and then find the square of the result"
    /\ buttons = <<"2", "+", "3", "=", "square">>

\* C6: in every sequence parse returns, a unary token that comes after a
\* binary operator is immediately preceded by "=", so the safety check of
\* calculator_nlp_control.main leaves the sequence as it is.
C6_EqualsBeforeUnary ==
    Parsed =>
        /\ \A i \in 1..Len(buttons) :
               (/\ buttons[i] \in UnaryTokens
                /\ \E j \in 1..(i - 1) : buttons[j] \in BinaryOperators)
               => buttons[i - 1] = "="
        /\ SafetyCheck(buttons) = buttons

C6_Witness ==
    /\ Parsed
    /\ \E i \in 1..Len(buttons) :
           /\ buttons[i] = SQRT
           /\ \E j \in 1..(i - 1) : buttons[j] \in BinaryOperators
           /\ buttons[i - 1] = "="

\* the glyph of each operator word
GlyphOf(word) ==
    CASE word = "add" -> "+"
      [] word = "subtract" -> "-"
      [] word = "multiply" -> TIMES
      [] word = "divide" -> DIVIDE

OpWords == {"add", "subtract", "multiply", "divide"}
Operands == {"2", "12", "3", "7"}

\* one token per digit of the operand, most significant first
DigitTokens(n) == [i \in 1..Len(n) |-> SubSeq(n, i, i)]

\* C7: "<op-word> <A> and <B>" gives the digits of A, the glyph of the
\* op-word, the digits of B and "=".
C7_OpAAndB ==
    Parsed =>
        \A w \in OpWords, a \in Operands, b \in Operands :
            normalized = w \o " " \o a \o " and " \o b
            => buttons = DigitTokens(a) \o <<GlyphOf(w)>> \o DigitTokens(b) \o <<"=">>

C7_Witness ==
    /\ Parsed
    /\ instruction = "subtract 12 and 2"
    /\ buttons = <<"1", "2", "-", "2", "=">>

\* the operator keywords of the scan
OperatorKeywords ==
    {"add", "plus", "subtract", "minus", "multiply", "times", "by", "divide"}
HasOperatorKeyword(s) == \E k \in OperatorKeywords : Contains(s, k)

\* the "and" conjunction form: a digit run on each side of the first "and"
IsAndForm(s) ==
    LET parts == ReSplitWord(s, "and") IN
    /\ Len(parts) >= 2
    /\ FindAllDigits(parts[1]) # <<>>
    /\ FindAllDigits(parts[2]) # <<>>

\* the digits of each run, the glyph between consecutive runs, then "="
RECURSIVE RunsWithGlyph(_, _, _)
RunsWithGlyph(runs, glyph, k) ==
    IF k > Len(runs) THEN <<"=">>
    ELSE (IF k > 1 THEN <<glyph>> ELSE <<>>) \o DigitTokens(runs[k])
         \o RunsWithGlyph(runs, glyph, k + 1)

\* C8 as stated: for an instruction with an operator keyword, at least two
\* digit runs and no "and" form, parse emits the digits of each run of the
\* text with the glyph between consecutive runs and one final "=".
C8_AsStated ==
    Parsed =>
        LET s == Strip(Lower(instruction)) IN
        (/\ HasOperatorKeyword(s)
         /\ Len(FindAllDigits(s)) >= 2
         /\ ~IsAndForm(s))
        => buttons = RunsWithGlyph(FindAllDigits(s), DetermineOperation(s), 1)

\* C8 as amended: the same for an instruction without "then", the digit
\* runs being those of the text after number words are replaced by digits.
C8_InterleavedRuns ==
    Parsed =>
        LET s == normalized IN
        /\ (/\ ~Contains(s, "then")
            /\ HasOperatorKeyword(s)
            /\ Len(FindAllDigits(s)) >= 2
            /\ ~IsAndForm(s))
           => buttons = RunsWithGlyph(FindAllDigits(s), DetermineOperation(s), 1)
        /\ instruction = "multiply 12 by 7"
           => buttons = <<"1", "2", TIMES, "7", "=">>

C8_Witness ==
    /\ Parsed
    /\ instruction = "multiply 12 by 7"
    /\ buttons = <<"1", "2", TIMES, "7", "=">>

\* C9 as stated: a text with no digit run and no binary operator keyword
\* that contains "square" parses to the one token "square".
C9_AsStated ==
    Parsed =>
        LET s == Strip(Lower(instruction)) IN
        (/\ FindAllDigits(s) = <<>>
         /\ ~HasOperatorKeyword(s)
         /\ Contains(s, "square"))
        => buttons = <<"square">>

\* C9 as amended: the same for a text without "then" that has no digit run
\* after number words are replaced by digits.
C9_BareSquare ==
    Parsed =>
        LET s == normalized IN
        (/\ ~Contains(s, "then")
         /\ FindAllDigits(s) = <<>>
         /\ ~HasOperatorKeyword(s)
         /\ Contains(s, "square"))
        => buttons = <<"square">>

C9_Witness ==
    /\ Parsed
    /\ instruction = "square the result"
    /\ buttons = <<"square">>

\* the keyword groups of the operator scan, from the highest priority to
\* the lowest, and the glyph of each group
KeywordGroups ==
    <<{"add", "plus"}, {"subtract", "minus"}, {"multiply", "times", "by"}, {"divide"}>>
GroupGlyphs == <<"+", "-", TIMES, DIVIDE>>
GroupsPresent(s) ==
    {g \in 1..Len(KeywordGroups) : \E k \in KeywordGroups[g] : Contains(s, k)}

\* C18: in a text without "then" that holds operator keywords, every
\* operator token parse emits is the glyph of the group of highest priority
\* among those present (add/plus, subtract/minus, multiply/times/by,
\* divide), and one is emitted when the text has two digit runs;
\* "divide 8 by 2" gives the multiply glyph and "subtract 3 plus 4" gives +.
C18_PriorityScan ==
    Parsed =>
        /\ (~Contains(normalized, "then") /\ GroupsPresent(normalized) # {}) =>
              /\ \A i \in 1..Len(buttons) :
                     buttons[i] \in BinaryOperators
                     => buttons[i] = GroupGlyphs[Min(GroupsPresent(normalized))]
              /\ Len(FindAllDigits(normalized)) >= 2 => HasOperator(buttons)
        /\ instruction = "divide 8 by 2" => buttons = <<"8", TIMES, "2", "=">>
        /\ instruction = "subtract 3 plus 4" => buttons = <<"3", "+", "4", "=">>

\* C18 witness: keywords of two groups, the glyph of the higher one emitted
C18_Witness ==
    /\ Parsed
    /\ Cardinality(GroupsPresent(normalized)) = 2
    /\ instruction = "divide 8 minus 2"
    /\ buttons = <<"8", "-", "2", "=">>

\* what the "and" form is to give for the text s: the digits of the first
\* run before the first "and", the glyph, the digits of the first run
\* between the first "and" and the second, and "="
AndFormTokens(s) ==
    LET parts == ReSplitWord(s, "and") IN
    DigitTokens(FindAllDigits(parts[1])[1])
    \o <<GroupGlyphs[Min(GroupsPresent(s))]>>
    \o DigitTokens(FindAllDigits(parts[2])[1]) \o <<"=">>

\* C19 as stated: for a clause with the word "and", an operator keyword and
\* a digit run on each side of the first "and", parse gives the digits of
\* the first run of the left side, the glyph, the digits of the first run
\* of the right side and "=", the runs being those of the text.
C19_AsStated ==
    Parsed =>
        LET s == Strip(Lower(instruction)) IN
        (~Contains(s, "then") /\ HasOperatorKeyword(s) /\ IsAndForm(s))
        => buttons = AndFormTokens(s)

\* C19 as amended: the same, the digit runs being those of the text after
\* number words are replaced by digits.
C19_AndFormFirstRuns ==
    Parsed =>
        LET s == normalized IN
        (~Contains(s, "then") /\ HasOperatorKeyword(s) /\ IsAndForm(s))
        => buttons = AndFormTokens(s)

\* C19 witness: further numbers on both sides and after a second "and"
C19_Witness ==
    /\ Parsed
    /\ instruction = "add 2 5 and 3 7 and 9"
    /\ buttons = <<"2", "+", "3", "=">>

\* C20: for a text without "then" and without a digit run that holds a
\* unary keyword, parse gives one token: the square-root token when the
\* text contains "square root" or "sqrt", the square token when it
\* contains "square" and not "root".
C20_UnaryToken ==
    Parsed =>
        LET s == normalized IN
        (~Contains(s, "then") /\ FindAllDigits(s) = <<>>) =>
            /\ (Contains(s, "square root") \/ Contains(s, "sqrt"))
               => buttons = <<SQRT>>
            /\ (Contains(s, "square") /\ ~Contains(s, "root"))
               => buttons = <<"square">>

(***************************************************************************)
(* Properties of _find_node_by_name, checked under SpecFind.               *)
(***************************************************************************)
Found == pc = "found"

\* the node of the map that has the given id
NodeOf(ns, id) == ns[CHOOSE i \in 1..Len(ns) : ns[i].id = id]

\* the label denotes the memory-add button or the sign toggle
IsMemoryAdd(label) == StartsWith(Lower(label), "m+")
IsSignToggle(label) == Contains(label, "+/-")

\* C3: for every map and node order, _find_node_by_name("+") never returns
\* a node whose label denotes memory-add ("M+ ...") or sign-toggle
\* ("+/- ..."), also when the map has no plain "+ button" node.
C3_PlusNeverCompound ==
    (Found /\ name = "+" /\ found # None) =>
        LET label == NodeOf(nodes, found).g_icon_name IN
        ~IsMemoryAdd(label) /\ ~IsSignToggle(label)

(***************************************************************************)
(* Properties of _find_calculator_window, checked under SpecLocate.        *)
(***************************************************************************)
\* C4: for every set of open windows, a window _find_calculator_window
\* returns is open, its title contains no exclusion-set entry and is equal
\* to the application name or begins with it.
C4_LocateOnlyTarget ==
    (pc = "located" /\ located # NoId) =>
        /\ windows[located].open
        /\ IsTargetTitle(windows[located].title)

\* C4 witness: the window returned comes after a listed window whose title
\* contains the application name and was refused.
C4_Witness ==
    /\ pc = "located"
    /\ located # NoId
    /\ \E id \in WindowIds :
           /\ id < located
           /\ windows[id].open
           /\ Contains(Lower(windows[id].title), ApplicationName)

(***************************************************************************)
(* Properties of the executor, checked under Spec.                         *)
(***************************************************************************)
\* C1: whenever click_button issues a click, the title of the tracked
\* window at that moment satisfies the target-window identity predicate.
C1_ClickOnlyOnTarget ==
    call.clicked => (call.window # NoId /\ IsTargetTitle(call.title))

\* C2: if during click_button the position of the tracked window cannot be
\* refreshed and the search that follows finds no target window, the call
\* returns a failure, issues no click and computes no click point.
C2_NoStalePosition ==
    (call.op = "click_button" /\ call.refresh_failed) =>
        (~call.success /\ ~call.clicked /\ ~call.computed)

\* C10: no call of open_calculator or click_button, made by a tool call or
\* by execute_calculation while a window that satisfies the target
\* predicate is open, invokes the launcher.
C10_NoRelaunch ==
    call.target_open => ~call.launched

\* C10 witness: a click_button call of execute_calculation, made while a
\* target window is open, clicked and did not invoke the launcher.
C10_Witness ==
    /\ call.op = "click_button"
    /\ call.target_open
    /\ call.clicked
    /\ ~call.launched
    /\ pc = "exec"

(***************************************************************************)
(* Properties of click_button and execute_calculation on the buttons of    *)
(* the run, checked under Spec.                                            *)
(***************************************************************************)
Range(seq) == {seq[i] : i \in 1..Len(seq)}

\* the buttons the tool calls of Spec ask for
ButtonsOfRun ==
    (ButtonArguments \ {""}) \cup
    UNION {Range(parse(text)) : text \in InstructionArguments \ {""}}

\* the buttons whose node of CalcFdom has a box that is not four numbers
MalformedButtons ==
    {button \in ButtonsOfRun :
        LET node_id == _find_node_by_name(CalcFdom, button) IN
        /\ node_id # None
        /\ \E i \in 1..Len(CalcFdom) :
              CalcFdom[i].id = node_id /\ Len(CalcFdom[i].bbox) # 4}

\* C11: a button whose node has a missing box or a box that is not four
\* numbers makes click_button return a failure without a click; in
\* execute_calculation the entry of that button is a failure and the response
\* has an entry for every token of the sequence, those after it included.
C11_MalformedBoxNoClick ==
    /\ (call.op = "click_button" /\ call.button \in MalformedButtons)
          => (~call.success /\ ~call.clicked)
    /\ \A i \in 1..Len(results) :
          results[i].button \in MalformedButtons => ~results[i].success
    /\ (call.op = "execute_calculation" /\ call.success)
          => /\ Len(call.results) = Len(call.button_sequence)
             /\ \A i \in 1..Len(call.results) :
                   call.button_sequence[i] \in MalformedButtons
                       => ~call.results[i].success

\* C11 witness: the loop has clicked a button, failed on the malformed box of
\* the next one, and clicked the one after it.
C11_Witness ==
    /\ pc = "exec"
    /\ Len(results) = 3
    /\ results[1].success
    /\ results[2].button \in MalformedButtons /\ ~results[2].success
    /\ results[3].success
    /\ call.op = "click_button" /\ call.clicked

\* C12: execute_calculation returns one entry per token of the sequence, in
\* the order of the tokens, whatever click_button returned for them: during
\* the loop the entries are those of the tokens handled so far, the entry of
\* the token just handled holds what click_button returned, failure
\* included, and the response has as many entries as button_sequence.
C12_OneEntryPerToken ==
    /\ pc = "exec" =>
          /\ token <= Len(buttons)
          /\ Len(results) = token
          /\ \A i \in 1..Len(results) : results[i].button = buttons[i]
          /\ (token > 0 /\ call.op = "click_button")
                => results[token] = [button |-> call.button,
                                     success |-> call.success]
    /\ (call.op = "execute_calculation" /\ call.success) =>
          /\ Len(call.results) = Len(call.button_sequence)
          /\ \A i \in 1..Len(call.results) :
                call.results[i].button = call.button_sequence[i]

\* C12 witness: a response of three entries whose first two are failures and
\* whose third is a success.
C12_Witness ==
    /\ call.op = "execute_calculation"
    /\ Len(call.button_sequence) = 3
    /\ Len(call.results) = 3
    /\ ~call.results[1].success
    /\ ~call.results[2].success
    /\ call.results[3].success

\* the keywords of the unary operations
UnaryKeywords == {"square", "sqrt", SQRT}

\* a lower-case text without a digit run and without a unary keyword
Unsupported(s) ==
    /\ FindAllDigits(s) = <<>>
    /\ \A keyword \in UnaryKeywords : ~Contains(s, keyword)

\* what execute_calculation does with an empty sequence: no click during the
\* loop, and a response with an empty result list
EmptySequenceIsNoOp ==
    /\ (pc = "exec" /\ buttons = <<>>) => (results = <<>> /\ ~call.clicked)
    /\ (call.op = "execute_calculation" /\ call.button_sequence = <<>>
          /\ call.error # "No instruction provided")
          => (call.success /\ call.results = <<>>)

OpenSucceeded == call.op = "open_calculator" /\ call.success

\* C14: whenever open_calculator returns success the window id it returns is
\* a window's and is the tracked one, and a call that follows it with the
\* windows unchanged (a desktop step clears call) returns success with the
\* same window id without launching the application.
C14_EnsureOpenIdempotent ==
    /\ [](OpenSucceeded => (call.window # NoId /\ call.window = window_id))
    /\ [][(OpenSucceeded /\ call'.op = "open_calculator")
            => /\ call'.success
               /\ call'.window = call.window
               /\ ~call'.launched]_vars

\* C16: when the verification before the click finds that the title of the
\* tracked window is not the calculator's, the click that follows is made
\* after the window was located again and its position read again, never
\* with the point computed before the verification.
C16_RevalidatedBeforeClick ==
    (call.op = "click_button" /\ call.mismatch /\ call.clicked) => call.reread

\* C17: execute_calculation handles the tokens one after the other in their
\* order: a turn of the loop starts when the outcome of the one before is
\* recorded, the click_button call of a turn is for the token of that turn,
\* and a click is made on the tracked window after a focus request on that
\* window, one click at most in a call.
C17_SequentialOrdered ==
    /\ pc = "exec" => Len(results) = token
    /\ (pc = "exec" /\ call.op = "click_button")
          => (token > 0 /\ call.button = buttons[token])
    /\ call.clicked => (call.op = "click_button" /\ call.focused = call.window)

\* C17 witness: the third turn of the loop has clicked its token on a window
\* it asked the focus for, after a click of the first turn.
C17_Witness ==
    /\ pc = "exec"
    /\ token = 3
    /\ results[1].success
    /\ call.clicked
    /\ call.button = buttons[3]
    /\ call.window # NoId
    /\ call.focused = call.window

(***************************************************************************)
(* Properties of _update_window_position, checked under SpecRefresh.       *)
(***************************************************************************)
\* C15: one call of _update_window_position calls _find_calculator_window
\* once at most, whatever the windows do between its queries.
C15_SingleSearch == searches <= 1

(***************************************************************************)
(* Properties of the operators parse emits, checked under SpecParse.       *)
(***************************************************************************)
\* every operator of bs stands between two digit tokens
OperatorsBetweenDigits(bs) ==
    \A i \in 1..Len(bs) :
        bs[i] \in BinaryOperators
            => /\ 1 < i /\ i < Len(bs)
               /\ bs[i - 1] \in DigitChars
               /\ bs[i + 1] \in DigitChars

\* the clauses of the text s: the one before the first "then" and the rest
ClausesOf(s) ==
    IF Contains(s, "then") THEN {FirstClause(s), SecondClause(s)} ELSE {s}

\* no clause of s has two digit runs, and bs has no operator and no "="
NoOperationWithoutTwoRuns(s, bs) ==
    (\A clause \in ClausesOf(s) : Len(FindAllDigits(clause)) < 2)
        => \A i \in 1..Len(bs) : bs[i] \notin BinaryOperators \cup {"="}

ExecuteResponded ==
    /\ call.tool = "execute_calculation"
    /\ \/ call.op = "execute_calculation"
       \/ call.op = "open_calculator" /\ ~call.success

\* C27: the response of execute_calculation is a success whenever the
\* instruction was not empty and open_calculator succeeded, whatever the
\* entries of the result list are; it is a failure only for an empty
\* instruction, before any launch, focus request or click, and for a failed
\* open_calculator, before any click and without a result list.
C27_OverallSuccess ==
    /\ pc = "exec" => (call.tool = "execute_calculation" \/ call = NoCall)
    /\ ExecuteResponded =>
          /\ pc = "idle"
          /\ (call.op = "execute_calculation"
                /\ call.error # "No instruction provided") => call.success
          /\ ~call.success =>
                /\ ~call.clicked
                /\ call.results = <<>>
                /\ call.error = "No instruction provided"
                      => (/\ call.op = "execute_calculation"
                          /\ ~call.launched
                          /\ call.focused = NoId
                          /\ call.window = NoId)
                /\ call.error # "No instruction provided"
                      => call.op = "open_calculator"

\* C27 witness: a response that is a success although every entry of its
\* result list is a failure.
C27_Witness ==
    /\ call.op = "execute_calculation"
    /\ call.success
    /\ Len(call.results) = 3
    /\ \A i \in 1..Len(call.results) : ~call.results[i].success

(***************************************************************************)
(* Properties of the click point, checked under Spec.                      *)
(***************************************************************************)
\* for each button of the run, the box of the node of CalcFdom it resolves
\* to, <<>> when it resolves to none
ResolvedBox ==
    [button \in ButtonsOfRun |->
        LET node_id == _find_node_by_name(CalcFdom, button) IN
        IF node_id = None THEN <<>>
        ELSE CalcFdom[CHOOSE i \in 1..Len(CalcFdom) : CalcFdom[i].id = node_id].bbox]

\* C24: the point handed to gui_api.click is the origin of the tracked
\* window, as the position refresh of the call read it, plus the floor of
\* the midpoint of the node's box on each axis.
C24_ClickPoint ==
    (call.op = "click_button" /\ call.clicked) =>
        LET bbox == ResolvedBox[call.button] IN
        /\ Len(bbox) = 4
        /\ HasWindowInfo(windows, call.window)
        /\ call.point =
              <<windows[call.window].position[1] + ((bbox[1] + bbox[3]) \div 2),
                windows[call.window].position[2] + ((bbox[2] + bbox[4]) \div 2)>>

(***************************************************************************)
(* Properties of the passes of _find_node_by_name, checked under SpecFind. *)
(***************************************************************************)
\* _find_node_by_name has returned for name on nodes
Resolved == pc \in {"found", "clicked"}

\* the lower-cased label of the node found
FoundLabel == Lower(NodeOf(nodes, found).g_icon_name)

\* C21: the alias pass returns no button of another function whose label
\* holds the fragment of the token: for "-" never the sign toggle ("+/-
\* button") nor a memory button ("M- button"), for "square" never the
\* square-root button, in any node order.
C21_AliasExclusions ==
    /\ (Resolved /\ name = "-" /\ found # None)
          => (~Contains(FoundLabel, "+/-") /\ ~StartsWith(FoundLabel, "m"))
    /\ (Resolved /\ name = "square" /\ found # None)
          => ~Contains(FoundLabel, SQRT)

\* C22: for a digit token the node returned has a label equal to
\* "<digit> button".
C22_DigitExactLabel ==
    (Resolved /\ IsDigit(Strip(Lower(name))) /\ found # None)
        => FoundLabel = Strip(Lower(name)) \o " button"

\* the operator tokens the fallback pass does not name
FallbackOperators == {"-", TIMES, DIVIDE} \cap Names

\* the label holds the glyph and is not a compound button's
HoldsGlyph(node, glyph) ==
    LET label == Lower(node.g_icon_name) IN
    /\ Contains(label, glyph)
    /\ ~Contains(label, "+/-")
    /\ ~StartsWith(label, "m")

\* C23: for an operator token (-, the multiplication and the division
\* glyph) the name is reported not found only when no node of the map has a
\* label that holds the glyph and is not a compound button's.
C23_OperatorFallback ==
    (Resolved /\ name \in FallbackOperators /\ found = None)
        => \A i \in 1..Len(nodes) : ~HoldsGlyph(nodes[i], name)

\* the name is neither a digit string nor a key of button_mappings
Unmapped(button_name) ==
    LET name_lower == Strip(Lower(button_name)) IN
    ~IsDigit(name_lower) /\ name_lower \notin MappedNames

\* C25: for a name that is neither a digit string nor a key of
\* button_mappings _find_node_by_name returns None on every map, and
\* click_button with it fails without a click.
C25_OnlyMappedNames ==
    /\ (Resolved /\ Unmapped(name)) => found = None
    /\ (pc = "clicked" /\ Unmapped(name)) => (~call.success /\ ~call.clicked)

\* C25 witness: the name occurs in the brief of a node of the map, no node
\* was returned and click_button reported it not found.
C25_Witness ==
    /\ pc = "clicked"
    /\ name = "equals"
    /\ \E i \in 1..Len(nodes) : Contains(Lower(nodes[i].g_brief), "equals")
    /\ found = None
    /\ call.error = "not found in fdom.json"
    /\ ~call.clicked

====
